---- MODULE Spec2Model ----
(***************************************************************************)
(* A model of pyezsnmp: the EzSNMP session (get / walk / set and the       *)
(* walk_iter generator, src/ezsnmp/__init__.py) and the DOCSIS modem poll  *)
(* Modem.get_all_info (src/ezsnmp/devices/docsis.py).                      *)
(*                                                                         *)
(* Four specifications share the variables:                                *)
(*   SpecSession  one session call (get, set or walk_iter) whose engine    *)
(*                result is any 4-tuple (errorIndication, errorStatus,     *)
(*                errorIndex, varBinds);                                   *)
(*   SpecDevice   walk_iter over an OID-ordered device, once on a bulk     *)
(*                session and once on a sequential one;                    *)
(*   Spec         one run of Modem.get_all_info;                           *)
(*   SpecRecord   Modeminfo.to_dict applied to a Modeminfo record.         *)
(***************************************************************************)
EXTENDS Integers, Sequences, FiniteSets, TLC

VARIABLES
    bulk,        \* EzSNMP.bulk
    bulk_count,  \* EzSNMP.bulk_count
    device,      \* SpecDevice: the agent's MIB, a sequence of <<oid, val>>
    oid,         \* walk_iter: the root OID argument
    convert,     \* walk_iter: the convert argument
    var_binds,   \* walk_iter: the list returned by self.walk(oid)
    pos,         \* walk_iter: index of the next element of var_binds
    yielded,     \* walk_iter: the pairs yielded so far
    walk_calls,  \* number of self.walk calls made by the running walk_iter
    round_trips, \* request PDUs the engine sent for the last walk
    outcome,     \* the last session call: engine result and what it raised/returned
    results,     \* SpecDevice: what walk_iter yielded, per session mode
    pc,          \* control state of the session / of get_all_info
    mdata,       \* get_all_info: the Modeminfo record
    if_oper,     \* get_all_info: dict returned by walk_ifoperstatus
    oid2down,    \* get_all_info: raw row index -> downstream channel number
    oid2up,      \* get_all_info: raw row index -> upstream channel number
    tmp,         \* the dict a facade walk is building: [keys, vals]
    seen,        \* history: the var-binds each step's walk_iter yielded
    raised,      \* get_all_info: the exception that ended the poll, or "none"
    requests,    \* get_all_info: the steps that issued an SNMP request
    nvars,       \* var-binds received so far in this poll
    out_dict     \* Modeminfo.to_dict: the dict being built and returned

vars == <<bulk, bulk_count, device, oid, convert, var_binds, pos, yielded,
          walk_calls, round_trips, outcome, results, pc, mdata, if_oper,
          oid2down, oid2up, tmp, seen, raised, requests, nvars, out_dict>>

sessionVars == <<bulk, bulk_count, device, oid, convert, var_binds, pos,
                 yielded, walk_calls, round_trips, outcome, results>>

pollVars == <<mdata, if_oper, oid2down, oid2up, tmp, seen, raised, requests,
              nvars, out_dict>>

-----------------------------------------------------------------------------
(* Bounds *)

\* longest varBinds list an engine result carries in SpecSession
MaxLen == 3
\* largest bulk_count tried in SpecDevice
MaxBulk == 3
\* var-binds one poll of get_all_info receives in total
MaxVarBinds == 4

-----------------------------------------------------------------------------
(* Values and OIDs *)

None == "None"

\* an SNMP integer value object (rfc1902.Integer32 and the like)
Integer(n) == [asn1 |-> "Integer", value |-> n]

\* python int(x) on an SNMP integer object
int(x) == x.value

Min(a, b) == IF a < b THEN a ELSE b

\* python t[:n]
Slice(t, n) == SubSeq(t, 1, Min(n, Len(t)))

\* python t[n:]
Tail_from(t, n) == SubSeq(t, Min(n, Len(t)) + 1, Len(t))

\* python tuple order a < b
OidLess(a, b) ==
    \E k \in 1..(Min(Len(a), Len(b)) + 1) :
        /\ \A j \in 1..(k - 1) : a[j] = b[j]
        /\ \/ k = Len(a) + 1 /\ k <= Len(b)
           \/ k <= Len(a) /\ k <= Len(b) /\ a[k] < b[k]

\* R is a strict prefix of o: o lies in the subtree below R
InTree(R, o) == Len(o) > Len(R) /\ Slice(o, Len(R)) = R

-----------------------------------------------------------------------------
(* EzSNMP.walk / get / set: translation of the engine result *)

Returned(vb) == [kind |-> "return", var_binds |-> vb]
SNMPTimeout == [kind |-> "SNMPTimeout"]
SNMPError(status, index) == [kind |-> "SNMPError", status |-> status, index |-> index]

\* truthiness of an integer error_status / error_index
Truthy(n) == n # 0

walk_swapped(res) ==
    IF res.error_indication
    THEN IF ~Truthy(res.error_status) /\ ~Truthy(res.error_index)
         THEN SNMPError(res.error_status, res.error_index)
         ELSE SNMPTimeout
    ELSE Returned(res.var_binds)

walk(res) ==
    IF res.error_indication
    THEN IF ~Truthy(res.error_status) /\ ~Truthy(res.error_index)
         THEN SNMPTimeout
         ELSE SNMPError(res.error_status, res.error_index)
    ELSE Returned(res.var_binds)

get(res) ==
    IF res.error_indication
    THEN IF ~Truthy(res.error_status) /\ ~Truthy(res.error_index)
         THEN SNMPTimeout
         ELSE SNMPError(res.error_status, res.error_index)
    ELSE Returned(res.var_binds)

set(res) ==
    IF res.error_indication
    THEN IF ~Truthy(res.error_status) /\ ~Truthy(res.error_index)
         THEN SNMPTimeout
         ELSE SNMPError(res.error_status, res.error_index)
    ELSE Returned(res.var_binds)

EngineResult(ei, es, ex, vb) ==
    [error_indication |-> ei, error_status |-> es, error_index |-> ex,
     var_binds |-> vb]

-----------------------------------------------------------------------------
(* EzSNMP.walk_iter *)

\* line 123 with ">" for ">="
left_subtree_gt(oid_tup, root) ==
    Len(oid_tup) > Len(root) /\ ~(Slice(oid_tup, Len(root)) = root)

\* line 123 without the "not"
left_subtree_nonot(oid_tup, root) ==
    Len(oid_tup) >= Len(root) /\ Slice(oid_tup, Len(root)) = root

\* line 123: the returned OID is in another subtree, stop the iteration
left_subtree(oid_tup, root) ==
    Len(oid_tup) >= Len(root) /\ ~(Slice(oid_tup, Len(root)) = root)

\* float(Decimal(n) / 10): exact decimal division, kept as whole and tenths
\* (whole + tenths/10, tenths in 0..9)
float_tenth(n) == [whole |-> n \div 10, tenths |-> n % 10]

\* the convert functions the callers pass: int, and
\* lambda x: float(Decimal(int(x))/10)
Convert(c, val) ==
    IF c = "int" THEN int(val) ELSE float_tenth(int(val))

\* lines 126-129: the pair yielded for a var-bind
Yield(c, oid_ret, val) ==
    IF c # None THEN <<oid_ret, Convert(c, val)>> ELSE <<oid_ret, val>>

\* a row of the var-bind table: one var-bind per requested OID (here one)
Row(o, v) == << <<o, v>> >>

-----------------------------------------------------------------------------
(* The SNMP engine behind walk, as EzSNMP.walk documents it: the command   *)
(* generator walks "over all entries within the given OID subtree"; with   *)
(* bulk requests "there can be elements of other subtrees at the end of    *)
(* the returned list".                                                     *)

Take(s, n) == SubSeq(s, 1, Min(n, Len(s)))

\* the entries of the MIB after OID o, in MIB order
After(dev, o) == SelectSeq(dev, LAMBDA e : OidLess(o, e[1]))

RECURSIVE BulkPages(_, _, _, _, _, _)
BulkPages(dev, n, head, from, acc, trips) ==
    LET page == Take(After(dev, from), n)
    IN  IF page = <<>>
        THEN [var_binds |-> acc, trips |-> trips + 1]
        ELSE IF InTree(head, page[Len(page)][1])
             THEN BulkPages(dev, n, head, page[Len(page)][1], acc \o page,
                            trips + 1)
             ELSE [var_binds |-> acc \o page, trips |-> trips + 1]

\* bulkCmd(comm, transport, 0, bulk_count, oid): GETBULK of n entries,
\* repeated from the last returned OID until a response ends outside the
\* subtree of head; every response is kept whole
bulkCmd(dev, n, head) == BulkPages(dev, n, head, head, <<>>, 0)

RECURSIVE NextPages(_, _, _, _, _)
NextPages(dev, head, from, acc, trips) ==
    LET page == Take(After(dev, from), 1)
    IN  IF page = <<>> \/ ~InTree(head, page[1][1])
        THEN [var_binds |-> acc, trips |-> trips + 1]
        ELSE NextPages(dev, head, page[1][1], acc \o page, trips + 1)

\* nextCmd(comm, transport, oid): GETNEXT repeated from the last returned
\* OID until the response is outside the subtree of head
nextCmd(dev, head) == NextPages(dev, head, head, <<>>, 0)

\* the var-bind table of a walk: one row per entry
Table(entries) == [i \in 1..Len(entries) |-> Row(entries[i][1], entries[i][2])]

-----------------------------------------------------------------------------
(* Python dicts and the Modeminfo record *)

EmptyDict == [k \in {} |-> 0]

\* d[k] = v
DictSet(d, k, v) == [x \in (DOMAIN d) \cup {k} |-> IF x = k THEN v ELSE d[x]]

\* Modeminfo.__init__
Modeminfo ==
    [sysdescr |-> None, error |-> None,
     down_freq |-> EmptyDict, down_bw |-> EmptyDict, down_mod |-> EmptyDict,
     down_power |-> EmptyDict, down_non_oper |-> <<>>, down_snr |-> EmptyDict,
     down_cw_unerroreds |-> EmptyDict, down_cw_correcteds |-> EmptyDict,
     down_cw_uncorrectables |-> EmptyDict,
     up_freq |-> EmptyDict, up_bw |-> EmptyDict, up_timingoffset |-> EmptyDict,
     up_non_oper |-> <<>>]

\* the state of a session that has made no call yet
SessionIdle ==
    /\ oid = <<>>
    /\ convert = None
    /\ var_binds = <<>>
    /\ pos = 1
    /\ yielded = <<>>
    /\ walk_calls = 0
    /\ round_trips = 0
    /\ outcome = [op |-> "none"]
    /\ results = [b \in BOOLEAN |-> None]

\* the state of a poll that has not started
PollIdle ==
    /\ mdata = Modeminfo
    /\ if_oper = EmptyDict
    /\ oid2down = EmptyDict
    /\ oid2up = EmptyDict
    /\ tmp = [keys |-> <<>>, vals |-> EmptyDict]
    /\ seen = [if_oper |-> <<>>, downstr |-> <<>>, upstr |-> <<>>, snr |-> <<>>,
               cw_correcteds |-> <<>>, cw_unerroreds |-> <<>>,
               cw_uncorrectables |-> <<>>]
    /\ raised = "none"
    /\ requests = <<>>
    /\ nvars = 0
    /\ out_dict = EmptyDict

-----------------------------------------------------------------------------
(* SpecSession: one call on a session, the engine result being arbitrary *)

Roots == {<<1, 2>>, <<1, 2, 1>>}

\* the var-binds an engine result may carry: below a root, equal to a root,
\* shorter than a root, and in other subtrees
SessionVarBinds ==
    { <<o, Integer(7)>> : o \in {<<2>>, <<1, 2>>, <<1, 3>>, <<1, 2, 1>>,
                                 <<1, 2, 2>>, <<1, 3, 1>>, <<1, 2, 1, 1>>} }
    \cup { <<<<1, 2, 2>>, Integer(-35)>> }

SessionTables ==
    UNION { [1..n -> { Row(vb[1], vb[2]) : vb \in SessionVarBinds }] : n \in 0..MaxLen }

EngineResults ==
    { EngineResult(ei, es, ex, vb) :
        ei \in BOOLEAN, es \in 0..1, ex \in 0..1, vb \in SessionTables }

\* EzSNMP.get
Get(res) ==
    /\ pc = "idle"
    /\ outcome' = [op |-> "getCmd", res |-> res, out |-> get(res)]
    /\ pc' = IF get(res).kind = "return" THEN "returned" ELSE "raised"
    /\ UNCHANGED <<bulk, bulk_count, device, oid, convert, var_binds, pos,
                   yielded, walk_calls, round_trips, results>>
    /\ UNCHANGED pollVars

\* EzSNMP.set
Set(res) ==
    /\ pc = "idle"
    /\ outcome' = [op |-> "setCmd", res |-> res, out |-> set(res)]
    /\ pc' = IF set(res).kind = "return" THEN "returned" ELSE "raised"
    /\ UNCHANGED <<bulk, bulk_count, device, oid, convert, var_binds, pos,
                   yielded, walk_calls, round_trips, results>>
    /\ UNCHANGED pollVars

\* walk_iter up to the first element: the one call of self.walk(oid), which
\* sends bulkCmd or nextCmd and raises or returns the var-bind table
WalkIterCall(o, c, res, trips) ==
    /\ pc = "idle"
    /\ oid' = o
    /\ convert' = c
    /\ walk_calls' = walk_calls + 1
    /\ round_trips' = trips
    /\ outcome' = [op |-> IF bulk THEN "bulkCmd" ELSE "nextCmd", res |-> res,
                   out |-> walk(res)]
    /\ IF walk(res).kind = "return"
       THEN var_binds' = walk(res).var_binds /\ pc' = "iter"
       ELSE var_binds' = <<>> /\ pc' = "raised"
    /\ pos' = 1
    /\ yielded' = <<>>
    /\ UNCHANGED <<bulk, bulk_count, device, results>>
    /\ UNCHANGED pollVars

\* walk_iter, one turn of "for var in self.walk(oid)"
WalkIterNext ==
    /\ pc = "iter"
    /\ IF pos > Len(var_binds)
       THEN pc' = "done" /\ UNCHANGED <<pos, yielded>>
       ELSE LET var == var_binds[pos]
                oid_ret == var[1][1]
                val == var[1][2]
            IN  IF left_subtree(oid_ret, oid)
                THEN pc' = "done" /\ UNCHANGED <<pos, yielded>>
                ELSE /\ yielded' = Append(yielded, Yield(convert, oid_ret, val))
                     /\ pos' = pos + 1
                     /\ pc' = pc
    /\ UNCHANGED <<bulk, bulk_count, device, oid, convert, var_binds,
                   walk_calls, round_trips, outcome, results>>
    /\ UNCHANGED pollVars

SessionGet == pc = "idle" /\ \E res \in EngineResults : Get(res)

SessionSet == pc = "idle" /\ \E res \in EngineResults : Set(res)

SessionWalkIter ==
    /\ pc = "idle"
    /\ \E o \in Roots, c \in {None, "int"}, res \in EngineResults :
          WalkIterCall(o, c, res, 1)

SessionInit ==
    /\ bulk \in BOOLEAN
    /\ bulk_count = 40
    /\ device = <<>>
    /\ pc = "idle"
    /\ SessionIdle
    /\ PollIdle

SessionNext == SessionGet \/ SessionSet \/ SessionWalkIter \/ WalkIterNext

SpecSession == SessionInit /\ [][SessionNext]_vars

-----------------------------------------------------------------------------
(* SpecDevice: walk_iter over the same device on a bulk session, then on a *)
(* sequential one                                                          *)

\* the MIB objects a device may hold, in OID order
Mib ==
    << <<1, 1, 5>>, <<1, 2, 1>>, <<1, 2, 2>>, <<1, 2, 3>>, <<1, 2, 3, 1>>,
       <<1, 3, 1>>, <<2>> >>

DeviceRoots == {<<1, 2>>, <<1, 2, 3>>}

\* the device holding the objects of Mib whose index is in S
DeviceOf(S) ==
    LET all == [i \in 1..Len(Mib) |-> <<i, <<Mib[i], Integer(i)>> >>]
        kept == SelectSeq(all, LAMBDA e : e[1] \in S)
    IN  [i \in 1..Len(kept) |-> kept[i][2]]

Devices == { DeviceOf(S) : S \in SUBSET (1..Len(Mib)) }

DeviceWalkIter ==
    LET e == IF bulk THEN bulkCmd(device, bulk_count, oid)
             ELSE nextCmd(device, oid)
    IN  WalkIterCall(oid, None, EngineResult(FALSE, 0, 0, Table(e.var_binds)),
                     e.trips)

\* the caller keeps what the walk yielded and repeats it on a session
\* constructed with bulk=False
DeviceNextSession ==
    /\ pc = "done"
    /\ results' = [results EXCEPT ![bulk] = yielded]
    /\ IF bulk
       THEN bulk' = FALSE /\ pc' = "idle" /\ walk_calls' = 0
       ELSE bulk' = bulk /\ pc' = "finished" /\ walk_calls' = walk_calls
    /\ UNCHANGED <<bulk_count, device, oid, convert, var_binds, pos, yielded,
                   round_trips, outcome>>
    /\ UNCHANGED pollVars

DeviceInit ==
    /\ bulk = TRUE
    /\ bulk_count \in 1..MaxBulk
    /\ device \in Devices
    /\ pc = "idle"
    /\ oid \in DeviceRoots
    /\ convert = None
    /\ var_binds = <<>>
    /\ pos = 1
    /\ yielded = <<>>
    /\ walk_calls = 0
    /\ round_trips = 0
    /\ outcome = [op |-> "none"]
    /\ results = [b \in BOOLEAN |-> None]
    /\ PollIdle

DeviceNext == DeviceWalkIter \/ WalkIterNext \/ DeviceNextSession

SpecDevice == DeviceInit /\ [][DeviceNext]_vars

-----------------------------------------------------------------------------
(* Modem.get_all_info: the OID roots and the steps of the poll *)

DOCS_DOWNSTR_TREE == <<1, 3, 6, 1, 2, 1, 10, 127, 1, 1, 1, 1>>
DOCS_UPSTR_TREE == <<1, 3, 6, 1, 2, 1, 10, 127, 1, 1, 2, 1>>
SYSDESCR_OID == <<1, 3, 6, 1, 2, 1, 1, 1, 0>>
IFOPERSTATUS_TREE == <<1, 3, 6, 1, 2, 1, 2, 2, 1, 8>>
SNR_TREE == <<1, 3, 6, 1, 2, 1, 10, 127, 1, 1, 4, 1, 5>>
CW_UNERROREDS_TREE == <<1, 3, 6, 1, 2, 1, 10, 127, 1, 1, 4, 1, 8>>
CW_CORRECTEDS_TREE == <<1, 3, 6, 1, 2, 1, 10, 127, 1, 1, 4, 1, 9>>
CW_UNCORRECTABLES_TREE == <<1, 3, 6, 1, 2, 1, 10, 127, 1, 1, 4, 1, 10>>

\* the walks of get_all_info, in the order of the code
WalkSteps ==
    <<"if_oper", "downstr", "upstr", "snr", "cw_correcteds", "cw_unerroreds",
      "cw_uncorrectables">>

\* all steps: the sysDescr get, then the walks
Steps == <<"sysdescr">> \o WalkSteps

StepNo(s) == CHOOSE k \in 1..Len(Steps) : Steps[k] = s

\* the control state while the rows of a walk are consumed
IterPc ==
    [if_oper |-> "if_oper_iter", downstr |-> "downstr_iter",
     upstr |-> "upstr_iter", snr |-> "snr_iter",
     cw_correcteds |-> "cw_correcteds_iter",
     cw_unerroreds |-> "cw_unerroreds_iter",
     cw_uncorrectables |-> "cw_uncorrectables_iter"]

\* the statement after a walk's loop: the next step, or "return mdata"
AfterStep ==
    [sysdescr |-> "if_oper", if_oper |-> "downstr", downstr |-> "upstr",
     upstr |-> "snr", snr |-> "cw_correcteds",
     cw_correcteds |-> "cw_unerroreds",
     cw_unerroreds |-> "cw_uncorrectables", cw_uncorrectables |-> "returned"]

\* the root each walk passes to walk_iter
StepRoot ==
    [if_oper |-> IFOPERSTATUS_TREE, downstr |-> DOCS_DOWNSTR_TREE,
     upstr |-> DOCS_UPSTR_TREE, snr |-> SNR_TREE,
     cw_correcteds |-> CW_CORRECTEDS_TREE,
     cw_unerroreds |-> CW_UNERROREDS_TREE,
     cw_uncorrectables |-> CW_UNCORRECTABLES_TREE]

\* the convert argument each walk passes to walk_iter
StepConvert ==
    [if_oper |-> "int", downstr |-> None, upstr |-> None, snr |-> "tenth",
     cw_correcteds |-> "int", cw_unerroreds |-> "int",
     cw_uncorrectables |-> "int"]

\* an SNMP string value object, and python str(x) on it
OctetString(t) == [asn1 |-> "OctetString", value |-> t]
str(x) == x.value

Last(t) == t[Len(t)]

-----------------------------------------------------------------------------
(* get_all_info: the body of the two channel-table loops *)

Ok(md, map) == [exc |-> "none", mdata |-> md, map |-> map]
Exc(e, md, map) == [exc |-> e, mdata |-> md, map |-> map]

\* the downstream loop body storing under the raw row index
DownRow_rawkey(md, map, ifo, sfx, val) ==
    IF Len(sfx) < 2 THEN Exc("IndexError", md, map)
    ELSE IF sfx[1] = 1
    THEN Ok(IF sfx[2] \in DOMAIN ifo /\ ~(ifo[sfx[2]] = 1)
            THEN [md EXCEPT !.down_non_oper = Append(@, int(val))]
            ELSE md,
            DictSet(map, sfx[2], int(val)))
    ELSE IF sfx[2] \notin DOMAIN map THEN Exc("KeyError", md, map)
    ELSE LET num == sfx[2]
         IN  CASE sfx[1] = 2 -> Ok([md EXCEPT !.down_freq = DictSet(@, num, int(val))], map)
               [] sfx[1] = 3 -> Ok([md EXCEPT !.down_bw = DictSet(@, num, int(val))], map)
               [] sfx[1] = 4 -> Ok([md EXCEPT !.down_mod = DictSet(@, num, int(val))], map)
               [] sfx[1] = 6 -> Ok([md EXCEPT !.down_power =
                                        DictSet(@, num, float_tenth(int(val)))], map)
               [] OTHER -> Ok(md, map)

\* the downstream loop body listing the channels that are up
DownRow_operup(md, map, ifo, sfx, val) ==
    IF Len(sfx) < 2 THEN Exc("IndexError", md, map)
    ELSE IF sfx[1] = 1
    THEN Ok(IF sfx[2] \in DOMAIN ifo /\ ifo[sfx[2]] = 1
            THEN [md EXCEPT !.down_non_oper = Append(@, int(val))]
            ELSE md,
            DictSet(map, sfx[2], int(val)))
    ELSE IF sfx[2] \notin DOMAIN map THEN Exc("KeyError", md, map)
    ELSE LET num == map[sfx[2]]
         IN  CASE sfx[1] = 2 -> Ok([md EXCEPT !.down_freq = DictSet(@, num, int(val))], map)
               [] sfx[1] = 3 -> Ok([md EXCEPT !.down_bw = DictSet(@, num, int(val))], map)
               [] sfx[1] = 4 -> Ok([md EXCEPT !.down_mod = DictSet(@, num, int(val))], map)
               [] sfx[1] = 6 -> Ok([md EXCEPT !.down_power =
                                        DictSet(@, num, float_tenth(int(val)))], map)
               [] OTHER -> Ok(md, map)

\* docsis.py lines 182-215, for the OID suffix sfx = oid[oidlen:]:
\* oid[0] and oid[1] raise IndexError on a suffix that is too short,
\* oid2down[oid[1]] raises KeyError on a row index not in the map
DownRow(md, map, ifo, sfx, val) ==
    IF Len(sfx) < 2 THEN Exc("IndexError", md, map)
    ELSE IF sfx[1] = 1
    THEN Ok(IF sfx[2] \in DOMAIN ifo /\ ~(ifo[sfx[2]] = 1)
            THEN [md EXCEPT !.down_non_oper = Append(@, int(val))]
            ELSE md,
            DictSet(map, sfx[2], int(val)))
    ELSE IF sfx[2] \notin DOMAIN map THEN Exc("KeyError", md, map)
    ELSE LET num == map[sfx[2]]
         IN  CASE sfx[1] = 2 -> Ok([md EXCEPT !.down_freq = DictSet(@, num, int(val))], map)
               [] sfx[1] = 3 -> Ok([md EXCEPT !.down_bw = DictSet(@, num, int(val))], map)
               [] sfx[1] = 4 -> Ok([md EXCEPT !.down_mod = DictSet(@, num, int(val))], map)
               [] sfx[1] = 6 -> Ok([md EXCEPT !.down_power =
                                        DictSet(@, num, float_tenth(int(val)))], map)
               [] OTHER -> Ok(md, map)

\* docsis.py lines 222-246
UpRow(md, map, ifo, sfx, val) ==
    IF Len(sfx) < 2 THEN Exc("IndexError", md, map)
    ELSE IF sfx[1] = 1
    THEN Ok(IF sfx[2] \in DOMAIN ifo /\ ~(ifo[sfx[2]] = 1)
            THEN [md EXCEPT !.up_non_oper = Append(@, int(val))]
            ELSE md,
            DictSet(map, sfx[2], int(val)))
    ELSE IF sfx[2] \notin DOMAIN map THEN Exc("KeyError", md, map)
    ELSE LET num == map[sfx[2]]
         IN  CASE sfx[1] = 2 -> Ok([md EXCEPT !.up_freq = DictSet(@, num, int(val))], map)
               [] sfx[1] = 3 -> Ok([md EXCEPT !.up_bw = DictSet(@, num, int(val))], map)
               [] sfx[1] = 6 -> Ok([md EXCEPT !.up_timingoffset =
                                        DictSet(@, num, int(val))], map)
               [] OTHER -> Ok(md, map)

\* the entries are stored under their row index
Rekey_raw(d, map, n) ==
    [k \in { d.keys[i] : i \in 1..n } |-> d.vals[k]]

\* {map[k]: d.vals[k] for k in d.keys[1..n]}: the entries of dict d, in
\* insertion order, stored under the channel number of their row index
RECURSIVE Rekey(_, _, _)
Rekey(d, map, n) ==
    IF n = 0 THEN EmptyDict
    ELSE DictSet(Rekey(d, map, n - 1), map[d.keys[n]], d.vals[d.keys[n]])

\* the first position of d.keys that is no key of map, or 0
FirstMissing(d, map) ==
    IF \A i \in 1..Len(d.keys) : d.keys[i] \in DOMAIN map THEN 0
    ELSE CHOOSE i \in 1..Len(d.keys) :
            /\ d.keys[i] \notin DOMAIN map
            /\ \A j \in 1..(i - 1) : d.keys[j] \in DOMAIN map

\* tmp[k] = v of a dict comprehension: a new key is appended, a known key
\* keeps its place
TmpSet(d, k, v) ==
    [keys |-> IF k \in DOMAIN d.vals THEN d.keys ELSE Append(d.keys, k),
     vals |-> DictSet(d.vals, k, v)]

EmptyTmp == [keys |-> <<>>, vals |-> EmptyDict]

-----------------------------------------------------------------------------
(* get_all_info: the except clauses *)

\* the second clause is a bare "except:"
Handle_catchall(exc, md) ==
    IF exc = "SNMPTimeout"
    THEN [pc |-> "returned", mdata |-> [md EXCEPT !.error = "snmp_timeout"]]
    ELSE [pc |-> "returned", mdata |-> [md EXCEPT !.error = "dns_nxdomain"]]

\* the error is tagged on a fresh record
Handle_fresh(exc, md) ==
    IF exc = "SNMPTimeout"
    THEN [pc |-> "returned", mdata |-> [Modeminfo EXCEPT !.error = "snmp_timeout"]]
    ELSE IF exc = "gaierror"
    THEN [pc |-> "returned", mdata |-> [Modeminfo EXCEPT !.error = "dns_nxdomain"]]
    ELSE [pc |-> "raised", mdata |-> md]

\* docsis.py lines 264-270: SNMPTimeout and gaierror end the poll with a
\* tagged record, anything else leaves get_all_info as an exception
Handle(exc, md) ==
    IF exc = "SNMPTimeout"
    THEN [pc |-> "returned", mdata |-> [md EXCEPT !.error = "snmp_timeout"]]
    ELSE IF exc = "gaierror"
    THEN [pc |-> "returned", mdata |-> [md EXCEPT !.error = "dns_nxdomain"]]
    ELSE [pc |-> "raised", mdata |-> md]

-----------------------------------------------------------------------------
(* Spec: one run of Modem.get_all_info. The engine result of every request *)
(* is arbitrary; the var-bind table of a walk is disclosed one element at  *)
(* a time, as the loop of walk_iter reaches it, and its OIDs increase, as  *)
(* the OIDs of successive GETNEXT / GETBULK responses do.                  *)

RawIdx == {1, 2}
ChanIds == {5, 7}
SysDescrs == {"modem"}

\* the values a device may hold in a column of the downstream table
DownColVals(c) ==
    CASE c = 1 -> ChanIds
      [] c = 2 -> {600000000}
      [] c = 3 -> {8000000}
      [] c = 4 -> {4}
      [] c = 6 -> {350, -35}
      [] OTHER -> {0}

\* the values a device may hold in a column of the upstream table
UpColVals(c) ==
    CASE c = 1 -> ChanIds
      [] c = 2 -> {30000000}
      [] c = 3 -> {3200000}
      [] c = 6 -> {1500}
      [] OTHER -> {0}

\* the first object of the next subtree, and an object of a later MIB
\* branch whose OID is shorter than every root walked here
LongAfter(root) == [root EXCEPT ![Len(root)] = @ + 1] \o <<1>>
ShortAfter == <<1, 3, 6, 1, 2, 1, 11, 1, 0>>

OutOfTree(root) ==
    { <<LongAfter(root), Integer(0)>> } \cup
    IF root = IFOPERSTATUS_TREE THEN {} ELSE { <<ShortAfter, Integer(0)>> }

\* the var-binds the engine may return to the walk of step s
StepVars(s) ==
    OutOfTree(StepRoot[s]) \cup
    CASE s = "downstr" ->
           UNION { { <<DOCS_DOWNSTR_TREE \o <<c, i>>, Integer(v)>> :
                       i \in RawIdx, v \in DownColVals(c) } : c \in 1..6 }
      [] s = "upstr" ->
           UNION { { <<DOCS_UPSTR_TREE \o <<c, i>>, Integer(v)>> :
                       i \in RawIdx, v \in UpColVals(c) } : c \in {1, 2, 3, 4, 6} }
      [] s = "if_oper" ->
           { <<IFOPERSTATUS_TREE \o <<i>>, Integer(v)>> : i \in RawIdx, v \in {1, 2} }
      [] s = "snr" ->
           { <<SNR_TREE \o <<i>>, Integer(v)>> : i \in RawIdx, v \in {350, 355} }
      [] OTHER ->
           { <<StepRoot[s] \o <<i>>, Integer(10 * i)>> : i \in RawIdx }

\* (errorIndication, errorStatus, errorIndex) of an engine result
Statuses == { <<ei, es, ex>> : ei \in BOOLEAN, es \in 0..1, ex \in 0..1 }

\* the try block is left with exception exc
Fail(exc, md) ==
    /\ pc' = Handle(exc, md).pc
    /\ mdata' = Handle(exc, md).mdata
    /\ raised' = exc

\* mdata.sysdescr = self.sysdescr(): BaseDevice.sysdescr is
\* str(self.get(oid)[0][1])
PollSysdescr ==
    /\ pc = "sysdescr"
    /\ requests' = Append(requests, "sysdescr")
    /\ \/ Fail("gaierror", mdata)
       \/ \E st \in Statuses, d \in SysDescrs :
            LET out == get(EngineResult(st[1], st[2], st[3],
                                        << <<SYSDESCR_OID, OctetString(d)>> >>))
            IN  IF out.kind = "return"
                THEN /\ mdata' = [mdata EXCEPT !.sysdescr = str(out.var_binds[1][2])]
                     /\ pc' = AfterStep["sysdescr"]
                     /\ raised' = raised
                ELSE Fail(out.kind, mdata)
    /\ UNCHANGED sessionVars
    /\ UNCHANGED out_dict
    /\ UNCHANGED <<if_oper, oid2down, oid2up, tmp, seen, nvars>>

\* a walk of get_all_info up to its first row: walk_iter calls self.walk
\* once, which raises or returns the table
PollWalk ==
    /\ \E k \in 1..Len(WalkSteps) : pc = WalkSteps[k]
    /\ requests' = Append(requests, pc)
    /\ \/ Fail("gaierror", mdata) /\ UNCHANGED <<oid, convert, tmp>>
       \/ \E st \in Statuses :
            LET out == walk(EngineResult(st[1], st[2], st[3], <<>>))
            IN  IF out.kind = "return"
                THEN /\ pc' = IterPc[pc]
                     /\ oid' = StepRoot[pc]
                     /\ convert' = StepConvert[pc]
                     /\ tmp' = EmptyTmp
                     /\ UNCHANGED <<mdata, raised>>
                ELSE Fail(out.kind, mdata) /\ UNCHANGED <<oid, convert, tmp>>
    /\ UNCHANGED <<bulk, bulk_count, device, var_binds, pos, yielded,
                   walk_calls, round_trips, outcome, results>>
    /\ UNCHANGED out_dict
    /\ UNCHANGED <<if_oper, oid2down, oid2up, seen, nvars>>

\* the pair walk_iter yields for var-bind vb, recorded in seen
Disclose(s, vb) ==
    /\ nvars < MaxVarBinds
    /\ ~left_subtree(vb[1], oid)
    /\ IF seen[s] = <<>> THEN TRUE ELSE OidLess(Last(seen[s])[1], vb[1])
    /\ seen' = [seen EXCEPT ![s] = Append(@, Yield(convert, vb[1], vb[2]))]
    /\ nvars' = nvars + 1

\* one turn of "for oid, val in downstr_tree"
PollDownRow ==
    /\ pc = IterPc["downstr"]
    /\ \E vb \in StepVars("downstr") :
         /\ Disclose("downstr", vb)
         /\ LET y == Yield(convert, vb[1], vb[2])
                r == DownRow(mdata, oid2down, if_oper,
                             Tail_from(y[1], Len(DOCS_DOWNSTR_TREE)), y[2])
            IN  /\ oid2down' = r.map
                /\ IF r.exc = "none"
                   THEN mdata' = r.mdata /\ UNCHANGED <<pc, raised>>
                   ELSE Fail(r.exc, r.mdata)
    /\ UNCHANGED sessionVars
    /\ UNCHANGED out_dict
    /\ UNCHANGED <<if_oper, oid2up, tmp, requests>>

\* one turn of "for oid, val in upstr_tree"
PollUpRow ==
    /\ pc = IterPc["upstr"]
    /\ \E vb \in StepVars("upstr") :
         /\ Disclose("upstr", vb)
         /\ LET y == Yield(convert, vb[1], vb[2])
                r == UpRow(mdata, oid2up, if_oper,
                           Tail_from(y[1], Len(DOCS_DOWNSTR_TREE)), y[2])
            IN  /\ oid2up' = r.map
                /\ IF r.exc = "none"
                   THEN mdata' = r.mdata /\ UNCHANGED <<pc, raised>>
                   ELSE Fail(r.exc, r.mdata)
    /\ UNCHANGED sessionVars
    /\ UNCHANGED out_dict
    /\ UNCHANGED <<if_oper, oid2down, tmp, requests>>

FacadeSteps ==
    {"if_oper", "snr", "cw_correcteds", "cw_unerroreds", "cw_uncorrectables"}

\* one turn of the dict comprehension {oid[-1]: val for oid, val in
\* self.walk_iter(...)} of walk_ifoperstatus and the walk_downstr_* methods
PollFacadeRow ==
    \E s \in FacadeSteps :
        /\ pc = IterPc[s]
        /\ \E vb \in StepVars(s) :
             /\ Disclose(s, vb)
             /\ LET y == Yield(convert, vb[1], vb[2])
                IN  tmp' = TmpSet(tmp, Last(y[1]), y[2])
        /\ UNCHANGED sessionVars
        /\ UNCHANGED out_dict
        /\ UNCHANGED <<pc, mdata, if_oper, oid2down, oid2up, raised, requests>>

\* the generator of step s ends: the table is exhausted, or its next
\* element is past the boundary of the subtree
WalkEnds(s) ==
    /\ pc = IterPc[s]
    /\ \/ TRUE
       \/ \E vb \in StepVars(s) : left_subtree(vb[1], oid)

\* the end of a channel-table loop
PollTableEnd ==
    /\ \E s \in {"downstr", "upstr"} : WalkEnds(s) /\ pc' = AfterStep[s]
    /\ UNCHANGED sessionVars
    /\ UNCHANGED pollVars

\* if_oper = self.walk_ifoperstatus()
PollIfOperEnd ==
    /\ WalkEnds("if_oper")
    /\ if_oper' = tmp.vals
    /\ pc' = AfterStep["if_oper"]
    /\ UNCHANGED sessionVars
    /\ UNCHANGED out_dict
    /\ UNCHANGED <<mdata, oid2down, oid2up, tmp, seen, raised, requests, nvars>>

\* docsis.py lines 250-252: the SNR values are stored one by one under
\* oid2down[oid]
PollSnrEnd ==
    /\ WalkEnds("snr")
    /\ LET m == FirstMissing(tmp, oid2down)
       IN  IF m = 0
           THEN /\ mdata' = [mdata EXCEPT !.down_snr =
                                Rekey(tmp, oid2down, Len(tmp.keys))]
                /\ pc' = AfterStep["snr"]
                /\ raised' = raised
           ELSE Fail("KeyError",
                     [mdata EXCEPT !.down_snr = Rekey(tmp, oid2down, m - 1)])
    /\ UNCHANGED sessionVars
    /\ UNCHANGED out_dict
    /\ UNCHANGED <<if_oper, oid2down, oid2up, tmp, seen, requests, nvars>>

\* docsis.py lines 254-262: a codeword dict is built under oid2down[oid] and
\* then assigned
PollCwEnd ==
    /\ \E s \in {"cw_correcteds", "cw_unerroreds", "cw_uncorrectables"} :
         /\ WalkEnds(s)
         /\ IF FirstMissing(tmp, oid2down) = 0
            THEN /\ mdata' =
                      LET d == Rekey(tmp, oid2down, Len(tmp.keys))
                      IN  CASE s = "cw_correcteds" ->
                                 [mdata EXCEPT !.down_cw_correcteds = d]
                            [] s = "cw_unerroreds" ->
                                 [mdata EXCEPT !.down_cw_unerroreds = d]
                            [] s = "cw_uncorrectables" ->
                                 [mdata EXCEPT !.down_cw_uncorrectables = d]
                 /\ pc' = AfterStep[s]
                 /\ raised' = raised
            ELSE Fail("KeyError", mdata)
    /\ UNCHANGED sessionVars
    /\ UNCHANGED out_dict
    /\ UNCHANGED <<if_oper, oid2down, oid2up, tmp, seen, requests, nvars>>

Init ==
    /\ bulk = TRUE
    /\ bulk_count = 40
    /\ device = <<>>
    /\ pc = "sysdescr"
    /\ SessionIdle
    /\ PollIdle

Next ==
    \/ PollSysdescr
    \/ PollWalk
    \/ PollDownRow
    \/ PollUpRow
    \/ PollFacadeRow
    \/ PollTableEnd
    \/ PollIfOperEnd
    \/ PollSnrEnd
    \/ PollCwEnd

Spec == Init /\ [][Next]_vars

-----------------------------------------------------------------------------
(* Modeminfo.to_dict *)

\* Modeminfo.__slots__, in declaration order
slots ==
    <<"sysdescr", "error",
      "down_freq", "down_bw", "down_mod", "down_power", "down_non_oper",
      "down_snr", "down_cw_unerroreds", "down_cw_correcteds",
      "down_cw_uncorrectables",
      "up_freq", "up_bw", "up_timingoffset", "up_non_oper">>

\* the slots that hold None or a string; the others hold a dict or a list
ScalarSlots == {"sysdescr", "error"}

\* getattr(self, key, None): a slot that was deleted reads as None
getattr(md, key) == IF key \in DOMAIN md THEN md[key] ELSE None

\* to_dict that only skips None
bool_notnone(key, val) ==
    IF key \in ScalarSlots THEN val # None ELSE TRUE

\* python bool(val) for the value of slot key: None and '' are false, a
\* dict or a list is false when its length is 0
bool(key, val) ==
    IF key \in ScalarSlots
    THEN val # None /\ val # ""
    ELSE Cardinality(DOMAIN val) # 0

\* lines 111-116: the loop over __slots__ from slot k on
RECURSIVE to_dict_loop(_, _, _)
to_dict_loop(md, k, out) ==
    IF k > Len(slots)
    THEN out
    ELSE LET key == slots[k]
             val == getattr(md, key)
         IN  IF ~bool(key, val)
             THEN to_dict_loop(md, k + 1, out)
             ELSE to_dict_loop(md, k + 1, DictSet(out, key, val))

\* Modeminfo.to_dict
to_dict(md) == to_dict_loop(md, 1, EmptyDict)

-----------------------------------------------------------------------------
(* SpecRecord: to_dict applied to a Modeminfo record *)

\* the values a channel dict holds: empty, one channel, two channels; a
\* stored value may itself be 0
ChannelDicts == {EmptyDict, (5 :> 0), (5 :> 600000000 @@ 7 :> 0)}

\* the tenth-of-a-unit dicts (down_power, down_snr): 0.0 and -3.5
TenthDicts == {EmptyDict, (5 :> float_tenth(0)), (7 :> float_tenth(-35))}

\* the non-operational channel lists
ChannelLists == {<<>>, <<5>>, <<5, 7>>}

\* what each slot may hold
SlotValues(key) ==
    CASE key = "sysdescr" -> {None, "", "modem"}
      [] key = "error" -> {None, "snmp_timeout", "dns_nxdomain"}
      [] key \in {"down_non_oper", "up_non_oper"} -> ChannelLists
      [] key \in {"down_power", "down_snr"} -> TenthDicts
      [] OTHER -> ChannelDicts

\* the slots the poll fills together are drawn together
DownTable == {"down_freq", "down_bw", "down_mod"}
UpTable == {"up_freq", "up_bw", "up_timingoffset"}
DownCw == {"down_cw_unerroreds", "down_cw_correcteds", "down_cw_uncorrectables"}

\* del md.key
DelAttr(md, key) == [f \in (DOMAIN md) \ {key} |-> md[f]]

Records ==
    LET full ==
          { [f \in DOMAIN Modeminfo |->
                CASE f = "sysdescr" -> sd
                  [] f = "error" -> er
                  [] f \in DownTable -> dt
                  [] f = "down_power" -> dp
                  [] f = "down_snr" -> sn
                  [] f \in DownCw -> cw
                  [] f \in UpTable -> ut
                  [] f = "down_non_oper" -> dn
                  [] OTHER -> un] :
              sd \in SlotValues("sysdescr"), er \in SlotValues("error"),
              dt \in SlotValues("down_freq"), dp \in SlotValues("down_power"),
              sn \in SlotValues("down_snr"), cw \in SlotValues("down_cw_unerroreds"),
              ut \in SlotValues("up_freq"), dn \in SlotValues("down_non_oper"),
              un \in SlotValues("up_non_oper") }
    IN  full \cup { DelAttr(md, "error") : md \in { r \in full : r.error = None } }

\* md.to_dict()
ToDict ==
    /\ pc = "record"
    /\ out_dict' = to_dict(mdata)
    /\ pc' = "serialised"
    /\ UNCHANGED sessionVars
    /\ UNCHANGED <<mdata, if_oper, oid2down, oid2up, tmp, seen, raised,
                   requests, nvars>>

RecordInit ==
    /\ bulk = TRUE
    /\ bulk_count = 40
    /\ device = <<>>
    /\ pc = "record"
    /\ SessionIdle
    /\ mdata \in Records
    /\ if_oper = EmptyDict
    /\ oid2down = EmptyDict
    /\ oid2up = EmptyDict
    /\ tmp = EmptyTmp
    /\ seen = [if_oper |-> <<>>, downstr |-> <<>>, upstr |-> <<>>, snr |-> <<>>,
               cw_correcteds |-> <<>>, cw_unerroreds |-> <<>>,
               cw_uncorrectables |-> <<>>]
    /\ raised = "none"
    /\ requests = <<>>
    /\ nvars = 0
    /\ out_dict = EmptyDict

RecordNext == ToDict

SpecRecord == RecordInit /\ [][RecordNext]_vars

-----------------------------------------------------------------------------
(* Properties of the session: walk_iter and the error translation *)

\* the OID and the value of element i of the table walk returned
VarOid(i) == var_binds[i][1][1]
VarVal(i) == var_binds[i][1][2]

\* C1: every OID walk_iter(R) yields has R as a strict prefix, whatever list
\* of var-binds walk returned
C1_SubtreeConfinement ==
    \A i \in 1..Len(yielded) : InTree(oid, yielded[i][1])

\* the entries of the device that lie below the root, in device order
DeviceInTree == SelectSeq(device, LAMBDA e : InTree(oid, e[1]))

\* C2 as stated: when the subtree holds more entries than one bulk page,
\* walk_iter has invoked walk more than once by the time it ends
C2_WalkInvokedRepeatedly ==
    (pc = "done" /\ bulk /\ Len(DeviceInTree) > bulk_count) => walk_calls >= 2

\* C2 as amended: a finished walk_iter(R) has invoked walk exactly once (the
\* paging is done by the engine inside that call) and the in-tree entries it
\* yielded are all in-tree entries of the device, in device order
C2_OneWalkYieldsSubtree ==
    pc = "done" =>
        /\ walk_calls = 1
        /\ SelectSeq(yielded, LAMBDA y : InTree(oid, y[1])) = DeviceInTree

C2_Witness ==
    /\ pc = "done"
    /\ bulk
    /\ Len(DeviceInTree) > bulk_count
    /\ round_trips >= 2
    /\ walk_calls = 1
    /\ Len(yielded) >= Len(DeviceInTree)

\* element i of the table is past the boundary of the subtree: as long as
\* the root, with other leading elements
Boundary(i) ==
    Len(VarOid(i)) >= Len(oid) /\ Slice(VarOid(i), Len(oid)) # oid

\* C3: when the table is K in-tree entries followed by an out-of-tree entry,
\* the finished walk_iter has yielded exactly the K entries in order, nothing
\* of what follows them, and has called walk once
C3_BoundaryStop ==
    pc = "done" =>
        \A K \in 0..(Len(var_binds) - 1) :
            ((\A i \in 1..K : InTree(oid, VarOid(i))) /\ Boundary(K + 1)) =>
                /\ yielded = [i \in 1..K |-> Yield(convert, VarOid(i), VarVal(i))]
                /\ walk_calls = 1

C3_Witness ==
    /\ pc = "done"
    /\ Len(var_binds) = 3
    /\ InTree(oid, VarOid(1))
    /\ Boundary(2)
    /\ InTree(oid, VarOid(3))
    /\ Len(yielded) = 1

\* C4: on the same device and root, the bulk session and the sequential
\* session yield the same sequence
C4_BulkSeqEquivalence ==
    pc = "finished" => results[TRUE] = results[FALSE]

\* C5: get, walk and set raise SNMPTimeout on a truthy errorIndication with
\* errorStatus and errorIndex zero, SNMPError(errorStatus, errorIndex) on a
\* truthy errorIndication otherwise, and else return varBinds unchanged
C5_ErrorTranslation ==
    outcome.op # "none" =>
        LET r == outcome.res
        IN  /\ (r.error_indication /\ r.error_status = 0 /\ r.error_index = 0)
                  => outcome.out = [kind |-> "SNMPTimeout"]
            /\ (r.error_indication /\ (r.error_status # 0 \/ r.error_index # 0))
                  => outcome.out = [kind |-> "SNMPError",
                                    status |-> r.error_status,
                                    index |-> r.error_index]
            /\ ~r.error_indication
                  => /\ outcome.out = [kind |-> "return", var_binds |-> r.var_binds]
                     /\ pc # "raised"
                     /\ outcome.op \in {"bulkCmd", "nextCmd"} => var_binds = r.var_binds
            /\ r.error_indication => pc = "raised"

C5_Witness ==
    /\ outcome.op # "none"
    /\ outcome.op = "nextCmd"
    /\ outcome.res.error_indication
    /\ outcome.res.error_status = 0
    /\ outcome.res.error_index = 1
    /\ outcome.out.kind = "SNMPError"
    /\ pc = "raised"

-----------------------------------------------------------------------------
(* Properties of get_all_info *)

\* the fields of the record each step populates
StepFields ==
    [sysdescr |-> {"sysdescr"},
     if_oper |-> {},
     downstr |-> {"down_freq", "down_bw", "down_mod", "down_power",
                  "down_non_oper"},
     upstr |-> {"up_freq", "up_bw", "up_timingoffset", "up_non_oper"},
     snr |-> {"down_snr"},
     cw_correcteds |-> {"down_cw_correcteds"},
     cw_unerroreds |-> {"down_cw_unerroreds"},
     cw_uncorrectables |-> {"down_cw_uncorrectables"}]

DataFields == UNION { StepFields[Steps[k]] : k \in 1..Len(Steps) }

IsEmptyField(md, f) ==
    IF f = "sysdescr" THEN md[f] = None ELSE DOMAIN md[f] = {}

\* C6: when a step raises SNMPTimeout (or a name-resolution failure),
\* get_all_info returns the record tagged 'snmp_timeout' ('dns_nxdomain'),
\* every field keeps the value it had, the fields of the failing step and
\* of the later steps are empty, the requests issued are those of the steps
\* up to the failing one, and nothing is done after the return
C6_ErrorShortCircuit ==
    [][ /\ pc # "returned"
        /\ (raised = "none" /\ raised' \in {"SNMPTimeout", "gaierror"}) =>
              /\ pc' = "returned"
              /\ mdata'.error = IF raised' = "SNMPTimeout" THEN "snmp_timeout"
                                ELSE "dns_nxdomain"
              /\ \A f \in DataFields : mdata'[f] = mdata[f]
              /\ \E k \in 1..Len(Steps) :
                    /\ requests' = SubSeq(Steps, 1, k)
                    /\ requests = SubSeq(Steps, 1, k - 1)
                    /\ \A j \in k..Len(Steps) :
                          \A f \in StepFields[Steps[j]] : IsEmptyField(mdata', f)
      ]_vars

C6_Witness ==
    /\ pc = "returned"
    /\ raised = "SNMPTimeout"
    /\ Last(requests) = "upstr"
    /\ mdata.error = "snmp_timeout"
    /\ mdata.sysdescr = "modem"
    /\ DOMAIN mdata.down_freq # {}
    /\ DOMAIN mdata.down_power # {}
    /\ DOMAIN mdata.up_freq = {}

\* the (columnId, row index) suffix of a yielded channel-table OID
Sfx(y) == Tail_from(y[1], Len(DOCS_DOWNSTR_TREE))

\* the yielded pair is a row of column c of a channel table
IsCol(y, c) == Len(Sfx(y)) >= 2 /\ Sfx(y)[1] = c

\* C7: an SNMPError of any step, and the KeyError of a channel-table row of
\* a column other than 1, or of a secondary-table row, whose row index is
\* not in the index map, leave get_all_info as exceptions: no record is
\* returned; a record is returned only after no failure, SNMPTimeout or a
\* name-resolution failure
C7_UncaughtPropagate ==
    [][ /\ (raised = "none" /\ raised' = "SNMPError") => pc' = "raised"
        /\ (/\ pc = "downstr_iter"
            /\ Len(seen'.downstr) > Len(seen.downstr)
            /\ Len(Sfx(Last(seen'.downstr))) >= 2
            /\ Sfx(Last(seen'.downstr))[1] # 1
            /\ Sfx(Last(seen'.downstr))[2] \notin DOMAIN oid2down)
              => (pc' = "raised" /\ raised' = "KeyError")
        /\ (/\ pc = "upstr_iter"
            /\ Len(seen'.upstr) > Len(seen.upstr)
            /\ Len(Sfx(Last(seen'.upstr))) >= 2
            /\ Sfx(Last(seen'.upstr))[1] # 1
            /\ Sfx(Last(seen'.upstr))[2] \notin DOMAIN oid2up)
              => (pc' = "raised" /\ raised' = "KeyError")
        /\ \A s \in {"snr", "cw_correcteds", "cw_unerroreds", "cw_uncorrectables"} :
              (/\ pc = IterPc[s]
               /\ pc' # pc
               /\ \E i \in 1..Len(seen[s]) : Last(seen[s][i][1]) \notin DOMAIN oid2down)
                 => (pc' = "raised" /\ raised' = "KeyError")
        /\ pc' = "returned" => raised' \in {"none", "SNMPTimeout", "gaierror"}
      ]_vars

C7_Witness ==
    /\ pc = "raised"
    /\ raised = "KeyError"
    /\ Len(seen.snr) = 1
    /\ Last(seen.snr[1][1]) = 2
    /\ DOMAIN oid2down = {1}
    /\ mdata.error = None

\* in the walk of a channel table, the channel-ID entry of a row came
\* before the other columns of the row
IdFirst(rows) ==
    \A k \in 1..Len(rows) :
        (Len(Sfx(rows[k])) >= 2 /\ Sfx(rows[k])[1] # 1) =>
            \E j \in 1..(k - 1) :
                IsCol(rows[j], 1) /\ Sfx(rows[j])[2] = Sfx(rows[k])[2]

\* no two rows of the channel table have the same channel number
DistinctChannels(rows) ==
    \A j, k \in 1..Len(rows) :
        (IsCol(rows[j], 1) /\ IsCol(rows[k], 1) /\ j # k) =>
            int(rows[j][2]) # int(rows[k][2])

\* dict d holds value v under key n
Holds(d, n, v) == n \in DOMAIN d /\ d[n] = v

\* dict d holds under key n the tenth of v
HoldsTenth(d, n, v) ==
    /\ n \in DOMAIN d
    /\ d[n].tenths \in 0..9
    /\ 10 * d[n].whole + d[n].tenths = v

\* every value of the downstream table, and of the secondary tables, is
\* stored under the channel number of its row
DownJoined ==
    \A j \in 1..Len(seen.downstr) :
        IsCol(seen.downstr[j], 1) =>
            LET i == Sfx(seen.downstr[j])[2]
                n == int(seen.downstr[j][2])
            IN  /\ \A k \in 1..Len(seen.downstr) :
                      LET y == seen.downstr[k]
                      IN  (Len(Sfx(y)) >= 2 /\ Sfx(y)[2] = i) =>
                            /\ Sfx(y)[1] = 2 => Holds(mdata.down_freq, n, int(y[2]))
                            /\ Sfx(y)[1] = 3 => Holds(mdata.down_bw, n, int(y[2]))
                            /\ Sfx(y)[1] = 4 => Holds(mdata.down_mod, n, int(y[2]))
                            /\ Sfx(y)[1] = 6 => HoldsTenth(mdata.down_power, n, int(y[2]))
                /\ \A k \in 1..Len(seen.snr) :
                      Last(seen.snr[k][1]) = i =>
                          Holds(mdata.down_snr, n, seen.snr[k][2])
                /\ \A k \in 1..Len(seen.cw_correcteds) :
                      Last(seen.cw_correcteds[k][1]) = i =>
                          Holds(mdata.down_cw_correcteds, n, seen.cw_correcteds[k][2])
                /\ \A k \in 1..Len(seen.cw_unerroreds) :
                      Last(seen.cw_unerroreds[k][1]) = i =>
                          Holds(mdata.down_cw_unerroreds, n, seen.cw_unerroreds[k][2])
                /\ \A k \in 1..Len(seen.cw_uncorrectables) :
                      Last(seen.cw_uncorrectables[k][1]) = i =>
                          Holds(mdata.down_cw_uncorrectables, n,
                                seen.cw_uncorrectables[k][2])

\* every value of the upstream table is stored under the channel number of
\* its row
UpJoined ==
    \A j \in 1..Len(seen.upstr) :
        IsCol(seen.upstr[j], 1) =>
            LET i == Sfx(seen.upstr[j])[2]
                n == int(seen.upstr[j][2])
            IN  \A k \in 1..Len(seen.upstr) :
                    LET y == seen.upstr[k]
                    IN  (Len(Sfx(y)) >= 2 /\ Sfx(y)[2] = i) =>
                          /\ Sfx(y)[1] = 2 => Holds(mdata.up_freq, n, int(y[2]))
                          /\ Sfx(y)[1] = 3 => Holds(mdata.up_bw, n, int(y[2]))
                          /\ Sfx(y)[1] = 6 => Holds(mdata.up_timingoffset, n, int(y[2]))

Completed == pc = "returned" /\ raised = "none"

Channels(rows) ==
    { int(rows[k][2]) : k \in { j \in 1..Len(rows) : IsCol(rows[j], 1) } }

\* C9: in every returned record the keys of the downstream mappings are
\* channel numbers seen in the downstream channel-ID column, and the keys of
\* the upstream mappings are channel numbers seen in the upstream one
C9_KeysAreChannels ==
    pc = "returned" =>
        /\ \A f \in {"down_freq", "down_bw", "down_mod", "down_power", "down_snr",
                     "down_cw_unerroreds", "down_cw_correcteds",
                     "down_cw_uncorrectables"} :
              DOMAIN mdata[f] \subseteq Channels(seen.downstr)
        /\ \A f \in {"up_freq", "up_bw", "up_timingoffset"} :
              DOMAIN mdata[f] \subseteq Channels(seen.upstr)

C9_Witness ==
    /\ pc = "returned"
    /\ mdata.error = "snmp_timeout"
    /\ DOMAIN mdata.down_freq = {7}
    /\ DOMAIN mdata.down_snr = {7}
    /\ DOMAIN oid2down = {2}

\* the channel numbers of the channel-ID rows whose row index has an
\* ifOperStatus entry other than up(1), in the order of the rows
NonOper(rows) ==
    LET ids == SelectSeq(rows, LAMBDA y :
                   /\ IsCol(y, 1)
                   /\ Sfx(y)[2] \in DOMAIN if_oper
                   /\ if_oper[Sfx(y)[2]] # 1)
    IN  [k \in 1..Len(ids) |-> int(ids[k][2])]

\* C10: down_non_oper (up_non_oper) lists exactly the channel numbers of the
\* processed channel-ID rows whose row index has an ifOperStatus entry that
\* is not 1
C10_NonOperational ==
    /\ mdata.down_non_oper = NonOper(seen.downstr)
    /\ mdata.up_non_oper = NonOper(seen.upstr)

C10_Witness ==
    /\ Completed
    /\ if_oper = (1 :> 2)
    /\ oid2down = (1 :> 5 @@ 2 :> 7)
    /\ oid2up = (1 :> 7)
    /\ mdata.down_non_oper = <<5>>
    /\ mdata.up_non_oper = <<7>>

-----------------------------------------------------------------------------
(* Properties of Modeminfo.to_dict *)

\* the record's field f holds a non-empty value: a mapping or a list with
\* at least one element, or a scalar that is neither None nor ''
HoldsValue(md, f) ==
    /\ f \in DOMAIN md
    /\ IF f \in {"sysdescr", "error"}
       THEN md[f] \notin {None, ""}
       ELSE DOMAIN md[f] # {}

UpSlots == {"up_freq", "up_bw", "up_timingoffset", "up_non_oper"}

\* C11: to_dict returns a mapping whose keys are exactly the record's
\* fields holding a non-empty value, each mapped to that field's value; a
\* record with no upstream data has none of the keys up_freq, up_bw,
\* up_timingoffset, up_non_oper, and a record whose error is None has no
\* error key
C11_EmptyFieldOmission ==
    pc = "serialised" =>
        /\ DOMAIN out_dict =
               { slots[k] : k \in { j \in 1..Len(slots) : HoldsValue(mdata, slots[j]) } }
        /\ \A f \in DOMAIN out_dict : out_dict[f] = mdata[f]
        /\ (\A f \in UpSlots : ~HoldsValue(mdata, f))
               => (DOMAIN out_dict) \cap UpSlots = {}
        /\ getattr(mdata, "error") = None => "error" \notin DOMAIN out_dict

\* a downstream-only record without error and with an empty
\* down_non_oper list, serialised
C11_Witness ==
    /\ pc = "serialised"
    /\ mdata.sysdescr = "modem"
    /\ getattr(mdata, "error") = None
    /\ mdata.down_non_oper = <<>>
    /\ \A f \in UpSlots : DOMAIN mdata[f] = {}
    /\ DOMAIN out_dict = {"sysdescr", "down_freq", "down_bw", "down_mod",
                          "down_power"}
    /\ out_dict.down_freq = (5 :> 600000000 @@ 7 :> 0)
    /\ out_dict.down_power = (5 :> float_tenth(0))

====
